---- MODULE Spec2Model ----
(***************************************************************************)
(* Smart Router: the complexity classifier (src/classifier.js), the Ollama *)
(* classifier (src/ollama-classifier.js) and the proxy handler for         *)
(* POST /v1/messages.                                                      *)
(*                                                                         *)
(* Scores and thresholds are kept in hundredths: 0.35 is 35, 1 is 100.     *)
(* Every weight of the scorer is a multiple of 0.01, so the arithmetic is  *)
(* exact in this unit.                                                     *)
(*                                                                         *)
(* A prompt text is represented by what the scorer reads from it: its      *)
(* word count, its fenced code blocks and their lines, the number of       *)
(* patterns of each table that match, its question marks and its lines     *)
(* starting with "<number>.".                                              *)
(*                                                                         *)
(* A model name is a tuple of its dash-separated parts:                    *)
(* 'claude-opus-4-20250514' is <<"claude", "opus", "4", "20250514">>.      *)
(* The empty tuple stands for a missing (undefined) or empty name: both    *)
(* are falsy in JavaScript.                                                *)
(***************************************************************************)
EXTENDS Integers, Sequences, FiniteSets, TLC

Min(a, b) == IF a < b THEN a ELSE b
Max(a, b) == IF a > b THEN a ELSE b

(***************************************************************************)
(* Bounds of the model.                                                    *)
(***************************************************************************)
MaxWordCount == 501
MaxCodeLines == 101
MaxQuestionMarks == 4
MaxNumberedItems == 4
MaxRating == 11
NumReqs == 2

(***************************************************************************)
(* Program constants.                                                      *)
(***************************************************************************)
NumComplexPatterns == 35
NumSimplePatterns == 20
NumMediumPatterns == 10
DefaultSimpleThreshold == 35
DefaultComplexThreshold == 65
DefaultRating == 5

NoModel == <<>>
DefaultSimpleModel == <<"claude", "3", "5", "haiku", "20241022">>
DefaultMediumModel == <<"claude", "sonnet", "4", "20250514">>
DefaultComplexModel == <<"claude", "opus", "4", "20250514">>

\* String.prototype.includes, at the granularity of name parts.
includes(name, part) == \E i \in DOMAIN name : name[i] = part

\* Whether object o has a value for key k (an absent key reads as undefined).
Has(o, k) == k \in DOMAIN o

(***************************************************************************)
(* classifier.js: calculateComplexity                                      *)
(***************************************************************************)
LengthAdj(wordCount) ==
    IF wordCount < 20 THEN -15
    ELSE IF wordCount < 50 THEN -5
    ELSE IF wordCount > 200 THEN 10
    ELSE IF wordCount > 500 THEN 20
    ELSE 0

CodeAdj(codeBlocks, codeLines) ==
    IF codeLines > 100 THEN 15
    ELSE IF codeLines > 50 THEN 10
    ELSE IF codeBlocks > 0 /\ codeLines < 20 THEN -5
    ELSE 0

PatternAdj_swapped(complexMatches, simpleMatches, mediumMatches) ==
    complexMatches * 3 - simpleMatches * 10 + mediumMatches * 8

PatternAdj(complexMatches, simpleMatches, mediumMatches) ==
    complexMatches * 8 - simpleMatches * 10 + mediumMatches * 3

QuestionAdj(questionMarks, wordCount) ==
    (IF questionMarks > 0 /\ wordCount < 30 THEN -10 ELSE 0)
    + (IF questionMarks > 3 THEN 10 ELSE 0)

NumberedAdj(numberedItems) == IF numberedItems > 3 THEN 15 ELSE 0

\* The score before the clamp of line 150.
RawScore(t) ==
    50 + LengthAdj(t.wordCount)
       + CodeAdj(t.codeBlocks, t.codeLines)
       + PatternAdj(t.complexMatches, t.simpleMatches, t.mediumMatches)
       + QuestionAdj(t.questionMarks, t.wordCount)
       + NumberedAdj(t.numberedItems)

calculateComplexity_noclamp(t) == RawScore(t)

calculateComplexity(t) == Max(0, Min(100, RawScore(t)))

(***************************************************************************)
(* classifier.js: getModelForComplexity, classify                          *)
(* `x || d` yields d when x is undefined (absent key), 0 or ''.            *)
(***************************************************************************)
Thresholds(config) ==
    [simple  |-> IF Has(config, "simpleThreshold") /\ config.simpleThreshold # 0
                 THEN config.simpleThreshold ELSE DefaultSimpleThreshold,
     complex |-> IF Has(config, "complexThreshold") /\ config.complexThreshold # 0
                 THEN config.complexThreshold ELSE DefaultComplexThreshold]

Models(config) ==
    [simple  |-> IF Has(config, "simpleModel") /\ config.simpleModel # NoModel
                 THEN config.simpleModel ELSE DefaultSimpleModel,
     medium  |-> IF Has(config, "mediumModel") /\ config.mediumModel # NoModel
                 THEN config.mediumModel ELSE DefaultMediumModel,
     complex |-> IF Has(config, "complexModel") /\ config.complexModel # NoModel
                 THEN config.complexModel ELSE DefaultComplexModel]

getModelForComplexity(score, config) ==
    IF score < Thresholds(config).simple
    THEN [model |-> Models(config).simple, tier |-> "simple", score |-> score]
    ELSE IF score < Thresholds(config).complex
    THEN [model |-> Models(config).medium, tier |-> "medium", score |-> score]
    ELSE [model |-> Models(config).complex, tier |-> "complex", score |-> score]

\* classifier.js classify; the `prompt` field (a log excerpt) is left out.
classifyHeuristics(prompt, config) ==
    getModelForComplexity(calculateComplexity(prompt), config)

(***************************************************************************)
(* ollama-classifier.js                                                    *)
(* A reply of the Ollama call is a timeout, a transport error, a response  *)
(* without a `response` string (malformed), or a text; of a text only its  *)
(* first run of digits matters: digits = <<n>>, or <<>> when it has none.  *)
(* Null is JavaScript's null; Thrown stands for an exception leaving the   *)
(* function instead of a return value.                                     *)
(***************************************************************************)
Null == [null |-> TRUE]
Thrown == [thrown |-> TRUE]

classifyWithOllama_nocatch(reply) ==
    IF reply.kind \in {"timeout", "error", "malformed"}
    THEN Thrown
    ELSE LET score == IF reply.digits = <<>> THEN DefaultRating ELSE reply.digits[1]
         IN  [score |-> Max(0, Min(100, score * 10))]

\* Returns [score |-> s] for a number s, or Null (the catch of line 52).
classifyWithOllama(reply) ==
    IF reply.kind \in {"timeout", "error", "malformed"}
    THEN Null
    ELSE LET score == IF reply.digits = <<>> THEN DefaultRating ELSE reply.digits[1]
         IN  [score |-> Max(0, Min(100, score * 10))]

getModelForScore(score, config) ==
    IF score < Thresholds(config).simple
    THEN [model |-> Models(config).simple, tier |-> "simple", score |-> score]
    ELSE IF score < Thresholds(config).complex
    THEN [model |-> Models(config).medium, tier |-> "medium", score |-> score]
    ELSE [model |-> Models(config).complex, tier |-> "complex", score |-> score]

\* ollama-classifier.js classify; the `prompt` field (a log excerpt) is left out.
classifyOllama(reply, config) ==
    LET score == classifyWithOllama(reply)
    IN  IF score = Null \/ score = Thrown THEN score
        ELSE LET recommendation == getModelForScore(score.score, config)
             IN  [model |-> recommendation.model, tier |-> recommendation.tier,
                  score |-> recommendation.score, source |-> "ollama"]

\* isOllamaAvailable: a probe is a failed GET, or the list of model names.
OllamaModelBase == "phi3"

isOllamaAvailable(probe) ==
    IF probe.kind = "error" THEN FALSE
    ELSE \E m \in probe.models : includes(m, OllamaModelBase)

(***************************************************************************)
(* The proxy (README.md, from line 123)                                    *)
(***************************************************************************)
\* CONFIG, lines 140-161. env holds the environment variables that are set;
\* a threshold is the value parseFloat reads, in hundredths.
LoadConfig(env) ==
    [simpleModel  |-> IF Has(env, "SIMPLE_MODEL") /\ env.SIMPLE_MODEL # NoModel
                      THEN env.SIMPLE_MODEL ELSE DefaultSimpleModel,
     mediumModel  |-> IF Has(env, "MEDIUM_MODEL") /\ env.MEDIUM_MODEL # NoModel
                      THEN env.MEDIUM_MODEL ELSE DefaultMediumModel,
     complexModel |-> IF Has(env, "COMPLEX_MODEL") /\ env.COMPLEX_MODEL # NoModel
                      THEN env.COMPLEX_MODEL ELSE DefaultComplexModel,
     simpleThreshold  |-> IF Has(env, "SIMPLE_THRESHOLD") /\ env.SIMPLE_THRESHOLD # 0
                          THEN env.SIMPLE_THRESHOLD ELSE DefaultSimpleThreshold,
     complexThreshold |-> IF Has(env, "COMPLEX_THRESHOLD") /\ env.COMPLEX_THRESHOLD # 0
                          THEN env.COMPLEX_THRESHOLD ELSE DefaultComplexThreshold,
     forceModel |-> IF Has(env, "FORCE_MODEL") THEN env.FORCE_MODEL ELSE NoModel,
     disabled   |-> Has(env, "DISABLED") /\ env.DISABLED = "true"]

\* classifyConfig, lines 230-236.
classifyConfig(cfg) ==
    [simpleModel |-> cfg.simpleModel, mediumModel |-> cfg.mediumModel,
     complexModel |-> cfg.complexModel, simpleThreshold |-> cfg.simpleThreshold,
     complexThreshold |-> cfg.complexThreshold]

\* Line 229: the branch that scores the prompt.
RoutingActive_ignoreForce(cfg) == ~cfg.disabled

RoutingActive_ignoreDisabled(cfg) == cfg.forceModel = NoModel

RoutingActive(cfg) == ~cfg.disabled /\ cfg.forceModel = NoModel

NeedsFallback_noNullCheck(c) == c # Null /\ c.source # "ollama"

\* Line 244: !classification || classification.source !== 'ollama'
NeedsFallback(c) == c = Null \/ c.source # "ollama"

\* Line 253: originalModel?.includes('opus') && !targetModel.includes('opus')
Downgraded_fromOpusOnly(originalModel, targetModel) == includes(originalModel, "opus")

Downgraded(originalModel, targetModel) ==
    includes(originalModel, "opus") /\ ~includes(targetModel, "opus")

\* Line 250: stats.routed[classification.tier]++
IncRouted_simple(routed, tier) == [routed EXCEPT !["simple"] = @ + 1]

IncRouted(routed, tier) == [routed EXCEPT ![tier] = @ + 1]

\* Line 281: a call with responseType 'stream' yields the response stream as
\* `data`, of a 2xx response and of the response of an HTTP error alike.
StreamObject == [stream |-> "response"]

\* Lines 284-298: the answer to the caller for an upstream outcome. An
\* outcome is a response (2xx), an HTTP error (a response with another
\* status) or a network error (no response, only a message). A streamed
\* response is piped under the default status 200.
Respond(o, stream) ==
    IF o.kind = "response"
    THEN [status |-> IF stream THEN 200 ELSE o.status, body |-> o.data]
    ELSE IF o.kind = "httpError"
    THEN [status |-> o.status,
          body |-> [error |-> IF stream THEN StreamObject ELSE o.data]]
    ELSE [status |-> 500, body |-> [error |-> [message |-> o.message]]]

(***************************************************************************)
(* Inputs                                                                  *)
(***************************************************************************)
Reqs == 1 .. NumReqs

\* ''.split(/\s+/) is [''], so the empty text has one word.
EmptyText ==
    [wordCount |-> 1, codeBlocks |-> 0, codeLines |-> 0, complexMatches |-> 0,
     simpleMatches |-> 0, mediumMatches |-> 0, questionMarks |-> 0,
     numberedItems |-> 0]

\* "What is TypeScript?" (test.js line 9)
WhatIsText ==
    [EmptyText EXCEPT !.wordCount = 3, !.simpleMatches = 1, !.questionMarks = 1]

\* "Architect a distributed system ... edge cases and error handling."
\* (test.js line 24): architect, distributed, edge cases, error handling.
ArchitectText ==
    [EmptyText EXCEPT !.wordCount = 24, !.complexMatches = 4]

OldOpusModel == <<"claude", "3", "opus", "20240229">>
OldHaikuModel == <<"claude", "3", "haiku", "20240307">>

\* Inbound bodies: `messages` is a sequence of [role, content]; an empty
\* sequence also stands for a missing or non-array `messages`.
MessageLists ==
    { <<>>,
      << [role |-> "user", content |-> WhatIsText] >>,
      << [role |-> "user", content |-> WhatIsText],
         [role |-> "assistant", content |-> EmptyText],
         [role |-> "user", content |-> ArchitectText] >> }

Bodies ==
    [model : {DefaultComplexModel}, messages : MessageLists, stream : {FALSE}]
    \cup { [model |-> NoModel,
            messages |-> << [role |-> "user", content |-> WhatIsText] >>,
            stream |-> FALSE],
           [model |-> DefaultComplexModel,
            messages |-> << [role |-> "user", content |-> WhatIsText] >>,
            stream |-> TRUE] }

\* extractPrompt, lines 173-197 (string contents).
extractPrompt(body) ==
    LET userMessages == SelectSeq(body.messages, LAMBDA m : m.role = "user")
    IN  IF userMessages = <<>> THEN EmptyText
        ELSE userMessages[Len(userMessages)].content

Envs ==
    { [PORT |-> 8080],
      [PORT |-> 8080, SIMPLE_THRESHOLD |-> 0],
      [PORT |-> 8080, FORCE_MODEL |-> OldHaikuModel],
      [PORT |-> 8080, DISABLED |-> "true"],
      [PORT |-> 8080, DISABLED |-> "false"],
      [PORT |-> 8080, FORCE_MODEL |-> OldHaikuModel, DISABLED |-> "true"],
      [PORT |-> 8080, SIMPLE_MODEL |-> OldHaikuModel, COMPLEX_MODEL |-> OldOpusModel,
       SIMPLE_THRESHOLD |-> 20, COMPLEX_THRESHOLD |-> 50] }

Probes ==
    { [kind |-> "error"],
      [kind |-> "tags", models |-> {}],
      [kind |-> "tags", models |-> {<<"llama3", "8b">>}],
      [kind |-> "tags", models |-> {<<"llama3", "8b">>, <<"phi3", "mini">>}] }

OllamaReplies ==
    { [kind |-> "timeout"], [kind |-> "error"], [kind |-> "malformed"],
      [kind |-> "text", digits |-> <<>>] }
    \cup { [kind |-> "text", digits |-> <<n>>] : n \in {2, MaxRating} }

UpstreamOutcomes ==
    { [kind |-> "response", status |-> 200, data |-> "message"],
      [kind |-> "httpError", status |-> 429, data |-> "rate_limit_error"],
      [kind |-> "networkError", message |-> "ECONNRESET"] }

(***************************************************************************)
(* State                                                                   *)
(***************************************************************************)
VARIABLES
    CONFIG,           \* the configuration read at load time
    ollamaAvailable,  \* line 136
    started,          \* whether start() has run and the server listens
    stats,            \* lines 164-168
    pc,               \* per request: idle, ollama, upstream, done, rejected
    reqBody,          \* per request: req.body
    originalModel,    \* per request: the handler's locals, while it runs
    prompt,
    classification,
    targetModel,
    scored,           \* per request: the scorers the handler has invoked
    inflight,         \* per request: the body of the pending upstream call
    calls,            \* per request: number of upstream calls made
    outcome,          \* per request: what the upstream answered
    res,              \* per request: the answers sent to the caller
    call              \* an invocation of an exported function

vars ==
    << CONFIG, ollamaAvailable, started, stats, pc, reqBody, originalModel, prompt,
       classification, targetModel, scored, inflight, calls, outcome, res, call >>

Passthrough == [tier |-> "passthrough", score |-> 0, source |-> "none"]
Forced == [tier |-> "forced", score |-> 0, source |-> "forced"]
NoBody == [model |-> NoModel, messages |-> <<>>, stream |-> FALSE]
NoCall == [fn |-> "none"]

InitServer ==
    /\ ollamaAvailable = FALSE
    /\ started = FALSE
    /\ stats = [total |-> 0,
                routed |-> [simple |-> 0, medium |-> 0, complex |-> 0],
                saved |-> 0]
    /\ pc = [r \in Reqs |-> "idle"]
    /\ reqBody = [r \in Reqs |-> NoBody]
    /\ originalModel = [r \in Reqs |-> NoModel]
    /\ prompt = [r \in Reqs |-> EmptyText]
    /\ classification = [r \in Reqs |-> Passthrough]
    /\ targetModel = [r \in Reqs |-> NoModel]
    /\ scored = [r \in Reqs |-> {}]
    /\ inflight = [r \in Reqs |-> <<>>]
    /\ calls = [r \in Reqs |-> 0]
    /\ outcome = [r \in Reqs |-> <<>>]
    /\ res = [r \in Reqs |-> <<>>]

Init ==
    /\ CONFIG \in {LoadConfig(env) : env \in Envs}
    /\ InitServer
    /\ call = NoCall

(***************************************************************************)
(* start(), lines 349-353: the probe, then listen.                         *)
(***************************************************************************)
Start(probe) ==
    /\ ~started
    /\ ollamaAvailable' = isOllamaAvailable(probe)
    /\ started' = TRUE
    /\ UNCHANGED << CONFIG, stats, pc, reqBody, originalModel, prompt, classification,
                    targetModel, scored, inflight, calls, outcome, res, call >>

(***************************************************************************)
(* app.post('/v1/messages'), lines 219-299. The handler runs without       *)
(* interruption between its awaits (one event loop), so each action is the *)
(* code from one await to the next.                                        *)
(***************************************************************************)
\* Lines 261-282: build modifiedBody and call the upstream.
Forward(r, body, target) ==
    /\ inflight' = [inflight EXCEPT ![r] = << [body EXCEPT !.model = target] >>]
    /\ calls' = [calls EXCEPT ![r] = @ + 1]
    /\ pc' = [pc EXCEPT ![r] = "upstream"]

\* An exception leaves the async handler during classification: its promise
\* is rejected, nothing catches it and the request is never answered.
Crash(r) ==
    /\ pc' = [pc EXCEPT ![r] = "rejected"]
    /\ UNCHANGED << classification, targetModel, inflight, calls >>

\* Lines 243-259 in the scoring branch: c is the value of `classification`
\* after line 241, st the statistics so far, who the scorers invoked so far.
Classify(r, c, body, orig, text, st, who) ==
    IF c = Thrown
    THEN /\ Crash(r)
         /\ stats' = st
         /\ scored' = [scored EXCEPT ![r] = who]
    ELSE IF ~NeedsFallback(c) /\ c = Null
    THEN \* line 249 reads classification.model of null
         /\ Crash(r)
         /\ stats' = st
         /\ scored' = [scored EXCEPT ![r] = who]
    ELSE LET cls == IF NeedsFallback(c)
                    THEN LET h == classifyHeuristics(text, classifyConfig(CONFIG))
                         IN  [model |-> h.model, tier |-> h.tier, score |-> h.score,
                              source |-> "heuristics"]
                    ELSE c
             target == cls.model
         IN  /\ classification' = [classification EXCEPT ![r] = cls]
             /\ targetModel' = [targetModel EXCEPT ![r] = target]
             /\ scored' = [scored EXCEPT ![r] =
                              IF NeedsFallback(c) THEN who \cup {"heuristics"} ELSE who]
             /\ stats' = [st EXCEPT !.routed = IncRouted(st.routed, cls.tier),
                                    !.saved = IF Downgraded(orig, target)
                                              THEN @ + 1 ELSE @]
             /\ Forward(r, body, target)

\* The request arrives: lines 220-227, then up to the first await.
Receive(r, body) ==
    /\ started
    /\ pc[r] = "idle"
    /\ reqBody' = [reqBody EXCEPT ![r] = body]
    /\ originalModel' = [originalModel EXCEPT ![r] = body.model]
    /\ prompt' = [prompt EXCEPT ![r] = extractPrompt(body)]
    /\ LET st == [stats EXCEPT !.total = @ + 1]
       IN  IF RoutingActive(CONFIG)
           THEN IF ollamaAvailable
                THEN \* line 240: await classifyOllama(prompt, classifyConfig)
                     /\ stats' = st
                     /\ pc' = [pc EXCEPT ![r] = "ollama"]
                     /\ classification' = [classification EXCEPT ![r] = Passthrough]
                     /\ targetModel' = [targetModel EXCEPT ![r] = body.model]
                     /\ scored' = [scored EXCEPT ![r] = {"ollama"}]
                     /\ UNCHANGED << inflight, calls >>
                ELSE Classify(r, Passthrough, body, body.model, extractPrompt(body), st, {})
           ELSE IF CONFIG.forceModel # NoModel
           THEN \* lines 256-258
                /\ stats' = st
                /\ classification' = [classification EXCEPT ![r] = Forced]
                /\ targetModel' = [targetModel EXCEPT ![r] = CONFIG.forceModel]
                /\ scored' = scored
                /\ Forward(r, body, CONFIG.forceModel)
           ELSE /\ stats' = st
                /\ classification' = [classification EXCEPT ![r] = Passthrough]
                /\ targetModel' = [targetModel EXCEPT ![r] = body.model]
                /\ scored' = scored
                /\ Forward(r, body, body.model)
    /\ UNCHANGED << CONFIG, ollamaAvailable, started, outcome, res, call >>

OllamaReturn_marksUnavailable(r, reply) ==
    /\ pc[r] = "ollama"
    /\ Classify(r, classifyOllama(reply, classifyConfig(CONFIG)), reqBody[r],
                originalModel[r], prompt[r], stats, scored[r])
    /\ ollamaAvailable' = (classifyWithOllama(reply) # Null)
    /\ UNCHANGED << CONFIG, started, reqBody, originalModel, prompt,
                    outcome, res, call >>

\* The Ollama call settles: line 240 resumes, then lines 243-282.
OllamaReturn(r, reply) ==
    /\ pc[r] = "ollama"
    /\ Classify(r, classifyOllama(reply, classifyConfig(CONFIG)), reqBody[r],
                originalModel[r], prompt[r], stats, scored[r])
    /\ UNCHANGED << CONFIG, ollamaAvailable, started, reqBody, originalModel, prompt,
                    outcome, res, call >>

\* The upstream call settles: lines 284-298. The handler returns and its
\* locals are gone. res.json serialises its argument with JSON.stringify,
\* which throws on a circular structure: whether the response stream of a
\* streamed call is one depends on the stream the HTTP client hands out
\* (serialisable). The exception leaves the catch block and the handler.
UpstreamReturn(r, o, serialisable) ==
    /\ pc[r] = "upstream"
    /\ outcome' = [outcome EXCEPT ![r] = << o >>]
    /\ IF o.kind = "httpError" /\ reqBody[r].stream /\ ~serialisable
       THEN /\ pc' = [pc EXCEPT ![r] = "rejected"]
            /\ res' = res
       ELSE /\ pc' = [pc EXCEPT ![r] = "done"]
            /\ res' = [res EXCEPT ![r] = Append(@, Respond(o, reqBody[r].stream))]
    /\ inflight' = [inflight EXCEPT ![r] = <<>>]
    /\ reqBody' = [reqBody EXCEPT ![r] = NoBody]
    /\ originalModel' = [originalModel EXCEPT ![r] = NoModel]
    /\ prompt' = [prompt EXCEPT ![r] = EmptyText]
    /\ classification' = [classification EXCEPT ![r] = Passthrough]
    /\ targetModel' = [targetModel EXCEPT ![r] = NoModel]
    /\ scored' = [scored EXCEPT ![r] = {}]
    /\ UNCHANGED << CONFIG, ollamaAvailable, started, stats, calls, call >>

Next ==
    \/ \E probe \in Probes : Start(probe)
    \/ \E r \in Reqs, body \in Bodies : Receive(r, body)
    \/ \E r \in Reqs, reply \in OllamaReplies : OllamaReturn(r, reply)
    \/ \E r \in Reqs, o \in UpstreamOutcomes, serialisable \in BOOLEAN :
         UpstreamReturn(r, o, serialisable)

Spec == Init /\ [][Next]_vars

(***************************************************************************)
(* The exported functions of classifier.js and ollama-classifier.js,       *)
(* called on their own: Init draws the arguments, the action applies the   *)
(* function.                                                               *)
(***************************************************************************)
WordCounts == {1, 19, 20, 29, 30, 49, 50, 200, 201, 500, MaxWordCount}
CodeLineCounts == {0, 1, 19, 20, 50, 51, 100, MaxCodeLines}
ComplexMatchCounts == {0, 1, 3, 4, 5, NumComplexPatterns}
\* At most 8 simple patterns match one text (the 13 anchored at the start
\* exclude each other); the table's size is kept as the extreme.
SimpleMatchCounts == {0, 1, 2, 8, NumSimplePatterns}
MediumMatchCounts == {0, 1, 2, 3, NumMediumPatterns}
QuestionMarkCounts == {0, 1, 3, MaxQuestionMarks}
NumberedItemCounts == {0, 3, MaxNumberedItems}

\* A fenced block has at least one line; n lines of text are at least n
\* words apart, as a line break is whitespace.
Texts ==
    { t \in [wordCount : WordCounts, codeBlocks : {0, 1}, codeLines : CodeLineCounts,
             complexMatches : ComplexMatchCounts, simpleMatches : SimpleMatchCounts,
             mediumMatches : MediumMatchCounts, questionMarks : QuestionMarkCounts,
             numberedItems : NumberedItemCounts] :
        /\ (t.codeBlocks = 0) = (t.codeLines = 0)
        /\ t.codeLines <= t.wordCount
        /\ t.numberedItems <= t.wordCount }

Scores == {5 * k : k \in 0 .. 20}
ThresholdValues == {0, 20, 35, 50, 65, 80, 100}

\* A config object may leave keys out.
Configs ==
    { [simpleThreshold |-> a, complexThreshold |-> b] :
        a \in ThresholdValues, b \in ThresholdValues }
    \cup { [simpleThreshold |-> a] : a \in ThresholdValues }
    \cup { [simpleThreshold |-> a, complexThreshold |-> b, simpleModel |-> OldHaikuModel,
            mediumModel |-> DefaultMediumModel, complexModel |-> OldOpusModel] :
             a \in ThresholdValues, b \in ThresholdValues }

\* classify(prompt) called with one argument: config = {}.
EmptyConfig == [x \in {} |-> NoModel]

Pending == [pending |-> TRUE]

InitScore ==
    /\ CONFIG = LoadConfig([PORT |-> 8080])
    /\ InitServer
    /\ \/ \E t \in Texts :
             call = [fn |-> "calculateComplexity", prompt |-> t, ret |-> Pending]
       \/ \E t \in Texts :
             call = [fn |-> "classify", prompt |-> t, ret |-> Pending]
       \/ \E f \in {"getModelForComplexity", "getModelForScore"},
             s \in Scores, c \in Configs :
             call = [fn |-> f, score |-> s, config |-> c, ret |-> Pending]

Frame ==
    UNCHANGED << CONFIG, ollamaAvailable, started, stats, pc, reqBody, originalModel,
                 prompt, classification, targetModel, scored, inflight, calls, outcome,
                 res >>

CallCalculateComplexity ==
    /\ call.fn = "calculateComplexity" /\ call.ret = Pending
    /\ call' = [call EXCEPT !.ret = [score |-> calculateComplexity(call.prompt)]]
    /\ Frame

CallClassify ==
    /\ call.fn = "classify" /\ call.ret = Pending
    /\ call' = [call EXCEPT !.ret = classifyHeuristics(call.prompt, EmptyConfig)]
    /\ Frame

CallGetModelForComplexity ==
    /\ call.fn = "getModelForComplexity" /\ call.ret = Pending
    /\ call' = [call EXCEPT !.ret = getModelForComplexity(call.score, call.config)]
    /\ Frame

CallGetModelForScore ==
    /\ call.fn = "getModelForScore" /\ call.ret = Pending
    /\ call' = [call EXCEPT !.ret = getModelForScore(call.score, call.config)]
    /\ Frame

NextScore ==
    \/ CallCalculateComplexity
    \/ CallClassify
    \/ CallGetModelForComplexity
    \/ CallGetModelForScore

SpecScore == InitScore /\ [][NextScore]_vars

(***************************************************************************)
(* Claims about the exported functions (SpecScore)                         *)
(***************************************************************************)
Returned(fns) == call.fn \in fns /\ call.ret # Pending

IsRoutingConfig(c) ==
    /\ DOMAIN c = {"simpleModel", "mediumModel", "complexModel",
                   "simpleThreshold", "complexThreshold"}
    /\ 0 <= c.simpleThreshold
    /\ c.simpleThreshold < c.complexThreshold
    /\ c.complexThreshold <= 100

\* C1: for every score in [0,1] and every RoutingConfig with
\* 0 <= simpleThreshold < complexThreshold <= 1, getModelForComplexity and
\* getModelForScore return (simpleModel, simple) when score < simpleThreshold,
\* (mediumModel, medium) when simpleThreshold <= score < complexThreshold, and
\* (complexModel, complex) when score >= complexThreshold.
C1_HalfOpenRule ==
    (Returned({"getModelForComplexity", "getModelForScore"})
       /\ IsRoutingConfig(call.config))
    => LET c == call.config
           s == call.score
       IN  /\ s < c.simpleThreshold
                => call.ret.tier = "simple" /\ call.ret.model = c.simpleModel
           /\ (c.simpleThreshold <= s /\ s < c.complexThreshold)
                => call.ret.tier = "medium" /\ call.ret.model = c.mediumModel
           /\ s >= c.complexThreshold
                => call.ret.tier = "complex" /\ call.ret.model = c.complexModel

\* C7: calculateComplexity returns a score between 0 and 1 for every text.
C7_ScoreClamped ==
    Returned({"calculateComplexity"})
    => 0 <= call.ret.score /\ call.ret.score <= 100

\* The clamp acts: all complex patterns matching gives more than 1 before it.
C7_Witness ==
    /\ Returned({"calculateComplexity"})
    /\ call.prompt.complexMatches = NumComplexPatterns
    /\ call.prompt.simpleMatches = 0
    /\ call.prompt.wordCount > 50
    /\ call.ret.score = 100

\* C10: classify(prompt) without a config uses the thresholds 0.35 and 0.65
\* and the default models; for a prompt without code blocks and numbered
\* lines: under 20 words with a simple match and no complex or medium match
\* it is simple (score < 0.35); under 20 words with one or two medium
\* matches, no simple or complex match and no question mark it is medium
\* (0.35 <= score < 0.65); under 50 words with at least four complex
\* matches, no simple match and no question mark it is complex
\* (score >= 0.65).
C10_DefaultTiers ==
    Returned({"classify"})
    => LET t == call.prompt
           r == call.ret
           plain == t.codeBlocks = 0 /\ t.numberedItems = 0
       IN  /\ r.tier = (IF r.score < 35 THEN "simple"
                        ELSE IF r.score < 65 THEN "medium" ELSE "complex")
           /\ r.model = (IF r.score < 35 THEN DefaultSimpleModel
                         ELSE IF r.score < 65 THEN DefaultMediumModel
                         ELSE DefaultComplexModel)
           /\ (plain /\ t.wordCount < 20 /\ t.simpleMatches >= 1
                 /\ t.complexMatches = 0 /\ t.mediumMatches = 0)
                => r.tier = "simple" /\ r.score < 35
           /\ (plain /\ t.wordCount < 20 /\ t.mediumMatches \in {1, 2}
                 /\ t.simpleMatches = 0 /\ t.complexMatches = 0
                 /\ t.questionMarks = 0)
                => r.tier = "medium" /\ 35 <= r.score /\ r.score < 65
           /\ (plain /\ t.wordCount < 50 /\ t.complexMatches >= 4
                 /\ t.simpleMatches = 0 /\ t.questionMarks = 0)
                => r.tier = "complex" /\ r.score >= 65

\* A short prompt with exactly four complex matches: 0.5 - 0.15 + 0.32.
C10_Witness ==
    /\ Returned({"classify"})
    /\ call.prompt.wordCount = 19
    /\ call.prompt.complexMatches = 4
    /\ call.prompt.simpleMatches = 0 /\ call.prompt.mediumMatches = 0
    /\ call.prompt.questionMarks = 0
    /\ call.prompt.codeBlocks = 0 /\ call.prompt.numberedItems = 0
    /\ call.ret.tier = "complex"
    /\ call.ret.score = 67

(***************************************************************************)
(* Claims about the handler (Spec)                                         *)
(***************************************************************************)
Tiers == {"simple", "medium", "complex"}

NormalMode == ~CONFIG.disabled /\ CONFIG.forceModel = NoModel

ConfiguredModels == {CONFIG.simpleModel, CONFIG.mediumModel, CONFIG.complexModel}

RoutedSum == stats.routed.simple + stats.routed.medium + stats.routed.complex

\* The handler of r was ended by an exception before its upstream call.
ClassificationFailed(r) == pc[r] = "rejected" /\ calls[r] = 0

\* The step in which the handler of r finishes its classification.
ClassifiedStep(r) == pc[r] \in {"idle", "ollama"} /\ pc'[r] = "upstream"

C2_Populated ==
    NormalMode =>
      \A r \in Reqs :
        /\ ~ClassificationFailed(r)
        /\ pc[r] = "upstream" =>
             LET c == classification[r]
             IN  /\ c # Null
                 /\ {"tier", "model", "source", "score"} \subseteq DOMAIN c
                 /\ c.tier \in Tiers
                 /\ c.model \in ConfiguredModels
                 /\ c.source \in {"ollama", "heuristics"}
                 /\ ~ollamaAvailable => c.source = "heuristics"
                 /\ c.source = "heuristics" =>
                      c.score = calculateComplexity(prompt[r])

C2_Source ==
    \A r \in Reqs, reply \in OllamaReplies :
      OllamaReturn(r, reply) =>
        IF reply.kind = "text"
        THEN /\ classification'[r].source = "ollama"
             /\ classification'[r].score =
                  (IF reply.digits = <<>> THEN 50 ELSE Min(100, reply.digits[1] * 10))
        ELSE /\ classification'[r].source = "heuristics"
             /\ classification'[r].score = calculateComplexity(prompt[r])

\* C2: in normal routing mode the handler ends classification with a
\* populated result for every prompt (tier simple, medium or complex, one of
\* the three configured models, a source): the external scorer's result with
\* source ollama when it is available and returns one, the heuristic
\* scorer's result with source heuristics when the external scorer is
\* unavailable or returns null (timeout, transport error, malformed reply).
C2_AlwaysClassified == [](C2_Populated) /\ [][C2_Source]_vars

\* The external scorer failed on the empty prompt and the heuristics decided.
C2_Witness ==
    /\ NormalMode /\ ollamaAvailable
    /\ \E r \in Reqs :
         /\ pc[r] = "upstream"
         /\ prompt[r] = EmptyText
         /\ scored[r] = {"ollama", "heuristics"}
         /\ classification[r].source = "heuristics"
         /\ classification[r].tier = "medium"

\* C3: with an override model configured no scorer is invoked, the
\* classification is tier forced with source forced, and the body sent
\* upstream carries the override model whatever the prompt and the
\* request's own model are.
C3_Forced ==
    CONFIG.forceModel # NoModel =>
      \A r \in Reqs :
        /\ scored[r] = {}
        /\ pc[r] # "ollama" /\ ~ClassificationFailed(r)
        /\ pc[r] = "upstream" =>
             /\ classification[r].tier = "forced"
             /\ classification[r].source = "forced"
             /\ targetModel[r] = CONFIG.forceModel
             /\ inflight[r] = << [model |-> CONFIG.forceModel,
                                  messages |-> reqBody[r].messages,
                                  stream |-> reqBody[r].stream] >>

\* A prompt the scorer would call complex, from a client asking for the
\* complex model, goes out with the override model.
C3_Witness ==
    /\ CONFIG.forceModel = OldHaikuModel
    /\ \E r \in Reqs :
         /\ pc[r] = "upstream"
         /\ originalModel[r] = DefaultComplexModel
         /\ prompt[r] = ArchitectText
         /\ inflight[r][1].model = OldHaikuModel

\* C4: with routing disabled and no override model the classification is
\* tier passthrough with source none, no scorer is invoked, the body sent
\* upstream is the inbound body, and neither a tier counter nor the saved
\* counter changes.
C4_Passthrough ==
    (CONFIG.disabled /\ CONFIG.forceModel = NoModel) =>
      /\ stats.routed = [simple |-> 0, medium |-> 0, complex |-> 0]
      /\ stats.saved = 0
      /\ \A r \in Reqs :
           /\ scored[r] = {}
           /\ pc[r] # "ollama" /\ ~ClassificationFailed(r)
           /\ pc[r] = "upstream" =>
                /\ classification[r].tier = "passthrough"
                /\ classification[r].source = "none"
                /\ targetModel[r] = reqBody[r].model
                /\ inflight[r] = << reqBody[r] >>

\* A simple prompt from a client asking for the complex model passes
\* unchanged.
C4_Witness ==
    /\ CONFIG.disabled /\ CONFIG.forceModel = NoModel
    /\ \E r \in Reqs :
         /\ pc[r] = "upstream"
         /\ reqBody[r].model = DefaultComplexModel
         /\ prompt[r] = WhatIsText
         /\ inflight[r][1].model = DefaultComplexModel
         /\ stats.total >= 1

\* C5 as stated: a request handled in normal routing mode adds exactly 1 to
\* the saved counter when its original model is the top-tier (complex) model
\* and its resolved tier is not complex, and leaves the counter unchanged
\* when its tier is complex or its original model is not the top-tier model.
C5_SavedOnTopTierDowngrade ==
    [][ \A r \in Reqs :
          (NormalMode /\ ClassifiedStep(r)) =>
            stats'.saved =
              (IF originalModel'[r] = CONFIG.complexModel
                    /\ classification'[r].tier # "complex"
               THEN stats.saved + 1 ELSE stats.saved) ]_vars

\* C5, amended: a request handled in normal routing mode adds exactly 1 to
\* the saved counter when the name of its original model contains 'opus' and
\* the name of the model it is routed to does not, and leaves the counter
\* unchanged otherwise.
C5_SavedOnOpusDowngrade ==
    [][ \A r \in Reqs :
          (NormalMode /\ ClassifiedStep(r)) =>
            stats'.saved =
              (IF (\E i \in DOMAIN originalModel'[r] : originalModel'[r][i] = "opus")
                    /\ ~(\E i \in DOMAIN classification'[r].model :
                            classification'[r].model[i] = "opus")
               THEN stats.saved + 1 ELSE stats.saved) ]_vars

\* A request for the complex model was classified simple and counted.
C5_Witness ==
    /\ NormalMode
    /\ stats.saved = 1
    /\ stats.total = 1
    /\ \E r \in Reqs :
         /\ pc[r] = "upstream"
         /\ originalModel[r] = DefaultComplexModel
         /\ classification[r].tier = "simple"

C6_Counts ==
    /\ stats.total = Cardinality({r \in Reqs : pc[r] # "idle"})
    /\ RoutedSum <= stats.total
    /\ RoutedSum = (IF NormalMode
                    THEN Cardinality({r \in Reqs : calls[r] = 1})
                    ELSE 0)

C6_Step ==
    /\ \A r \in Reqs :
         (NormalMode /\ ClassifiedStep(r)) =>
           /\ classification'[r].tier \in Tiers
           /\ \A t \in Tiers :
                stats'.routed[t] =
                  stats.routed[t] + (IF t = classification'[r].tier THEN 1 ELSE 0)
    /\ (~NormalMode \/ \A r \in Reqs : ~ClassifiedStep(r)) => stats'.routed = stats.routed
    /\ \A r \in Reqs :
         (pc[r] = "idle" /\ pc'[r] # "idle") => stats'.total = stats.total + 1

\* C6: under any interleaving of the handlers no counter update is lost:
\* total is the number of requests received, each request classified in
\* normal routing mode adds 1 to the counter of its own tier and to no
\* other, forced and passthrough requests add to none, so the tier counters
\* sum to at most total, and to total once every request is classified in
\* normal routing mode.
C6_NoLostUpdate == [](C6_Counts) /\ [][C6_Step]_vars

\* All requests were classified while the others were in flight, in
\* different tiers.
C6_Witness ==
    /\ NormalMode /\ ollamaAvailable
    /\ \A r \in Reqs : pc[r] = "upstream"
    /\ stats.total = NumReqs
    /\ RoutedSum = NumReqs
    /\ stats.routed.simple >= 1
    /\ stats.routed.complex >= 1

C8_Reaches ==
    \A r \in Reqs :
      /\ ~ClassificationFailed(r)
      /\ pc[r] = "ollama" => NormalMode /\ ollamaAvailable
      /\ res[r] # <<>> => calls[r] >= 1
      /\ pc[r] \notin {"idle", "ollama"} => calls[r] = 1
      /\ pc[r] = "upstream" => inflight[r] # <<>>

C8_Step ==
    \A r \in Reqs :
      /\ (pc[r] = "idle" /\ pc'[r] # "idle") => pc'[r] \in {"ollama", "upstream"}
      /\ (pc[r] = "ollama" /\ pc'[r] # "ollama") =>
           pc'[r] = "upstream" /\ calls'[r] = 1 /\ res'[r] = <<>>

\* C8: every accepted request is forwarded to the upstream in every mode and
\* whatever the external scorer does: before its upstream call a handler
\* waits only for the external scorer, every way that call settles makes it
\* call the upstream in the same turn, no handler is ended by an exception,
\* and no request is answered before its upstream call.
C8_AlwaysForwarded == [](C8_Reaches) /\ [][C8_Step]_vars

\* The external scorer failed for a request that is now at the upstream.
C8_Witness ==
    /\ ollamaAvailable
    /\ \E r \in Reqs :
         /\ pc[r] = "upstream"
         /\ "heuristics" \in scored[r] /\ "ollama" \in scored[r]
         /\ calls[r] = 1
         /\ inflight[r][1].model = DefaultSimpleModel
         /\ inflight[r][1].messages = reqBody[r].messages

C9_Answered ==
    \A r \in Reqs :
      /\ Len(res[r]) <= 1
      /\ calls[r] <= 1
      /\ (outcome[r] # <<>> /\ outcome[r][1].kind = "httpError") =>
           /\ Len(res[r]) = 1
           /\ res[r][1].status = outcome[r][1].status
           /\ res[r][1].body = [error |-> outcome[r][1].data]
      /\ (outcome[r] # <<>> /\ outcome[r][1].kind = "networkError") =>
           /\ Len(res[r]) = 1
           /\ res[r][1].status = 500
           /\ res[r][1].body = [error |-> [message |-> outcome[r][1].message]]

C9_Step ==
    /\ stats'.total >= stats.total
    /\ stats'.saved >= stats.saved
    /\ \A t \in Tiers : stats'.routed[t] >= stats.routed[t]
    /\ \A r \in Reqs :
         outcome'[r] # outcome[r] =>
           /\ stats' = stats
           /\ calls'[r] = calls[r]
           /\ \A q \in Reqs \ {r} :
                /\ pc'[q] = pc[q] /\ res'[q] = res[q]
                /\ inflight'[q] = inflight[q] /\ calls'[q] = calls[q]

\* C9: a request whose upstream call fails is answered once, with the
\* upstream's status, or 500 when the failure carries none, and a payload
\* carrying the upstream's message; the call is made once; the failure
\* touches no other request, and the statistics recorded are kept.
C9_UpstreamFailure == [](C9_Answered) /\ [][C9_Step]_vars

(***************************************************************************)
(* The word-count bands of calculateComplexity (SpecScore)                 *)
(***************************************************************************)
\* The text t with another word count, every other signal kept.
WithWordCount(t, w) == [t EXCEPT !.wordCount = w]

\* Neither score is cut by the clamp, so their difference is the difference
\* of the adjustments.
Unclamped(t) == 0 <= RawScore(t) /\ RawScore(t) <= 100

C11_ShortPushedDown ==
    Returned({"calculateComplexity"}) =>
      LET t == call.prompt
      IN  (t.wordCount < 20 /\ Unclamped(t)) =>
            \A w \in 50 .. 200 :
              Unclamped(WithWordCount(t, w)) =>
                call.ret.score < calculateComplexity(WithWordCount(t, w))

C11_LongPushedUp ==
    Returned({"calculateComplexity"}) =>
      LET t == call.prompt
      IN  (t.wordCount > 200 /\ t.wordCount <= 500 /\ Unclamped(t)) =>
            \A w \in 50 .. 200 :
              Unclamped(WithWordCount(t, w)) =>
                call.ret.score > calculateComplexity(WithWordCount(t, w))

C11_VeryLongPushedUpMore ==
    Returned({"calculateComplexity"}) =>
      LET t == call.prompt
      IN  (t.wordCount > 500 /\ Unclamped(t)) =>
            \A w \in 201 .. 500 :
              Unclamped(WithWordCount(t, w)) =>
                call.ret.score > calculateComplexity(WithWordCount(t, w))

\* C11: with every other signal equal, a text of more than 500 words scores
\* strictly higher than one of 201 to 500 words, which scores higher than
\* one of 50 to 200 words (no adjustment), and a text of fewer than 20 words
\* scores lower than that.
C11_LargerTextsPushUpMore ==
    /\ C11_ShortPushedDown
    /\ C11_LongPushedUp
    /\ C11_VeryLongPushedUpMore

(***************************************************************************)
(* The availability flag (Spec)                                            *)
(***************************************************************************)
C12_Flag ==
    /\ ~started => ~ollamaAvailable
    /\ \A r \in Reqs :
         /\ pc[r] # "idle" => started
         /\ pc[r] = "ollama" => NormalMode /\ ollamaAvailable
         /\ "ollama" \in scored[r] => NormalMode /\ ollamaAvailable

C12_Step ==
    /\ started => started' /\ ollamaAvailable' = ollamaAvailable
    /\ (~started /\ started') => \A r \in Reqs : pc[r] = "idle" /\ pc'[r] = "idle"
    /\ \A r \in Reqs :
         (pc[r] = "idle" /\ pc'[r] # "idle") =>
           /\ started
           /\ IF NormalMode /\ ollamaAvailable
              THEN pc'[r] = "ollama" /\ scored'[r] = {"ollama"} /\ calls'[r] = 0
              ELSE pc'[r] # "ollama" /\ "ollama" \notin scored'[r]
    /\ \A r \in Reqs :
         ("ollama" \in scored'[r] /\ "heuristics" \notin scored'[r]) =>
           ollamaAvailable'

\* C12: the availability flag is written once, by start(), before any
\* request is handled, and no step of any handler changes it afterwards;
\* while it is false no request calls the external scorer; while it is true
\* every request received in normal routing mode calls the external scorer
\* before anything else, whatever became of the earlier requests' calls.
C12_ProbedOnce == [](C12_Flag) /\ [][C12_Step]_vars

\* The external scorer failed for one request, which fell back to the
\* heuristics; another request is waiting for the external scorer.
C12_Witness ==
    /\ started /\ ollamaAvailable /\ NormalMode
    /\ \E q \in Reqs, r \in Reqs :
         /\ q # r
         /\ pc[q] = "upstream"
         /\ scored[q] = {"ollama", "heuristics"}
         /\ classification[q].source = "heuristics"
         /\ pc[r] = "ollama"
         /\ scored[r] = {"ollama"}

====
